---- MODULE Spec2Model ----
(***************************************************************************)
(* Cache-aside request pipeline of the sc2-search-api worker               *)
(* (src/src/index.ts): handleRequest, the single-query handlers,           *)
(* searchGames and fetchRecent, run against a key-value store and the      *)
(* Tinybird backend.                                                       *)
(***************************************************************************)
EXTENDS Integers, Sequences, FiniteSets, TLC

\* ---------------------------------------------------------------- bounds
\* longest row list the backend returns
MaxRows == 2
\* calls of one request that may go wrong: a store or transport call that
\* raises, or a backend answer that is no success
MaxFailures == 1
\* replays the backend draws a result list from, in any order
MaxPerm == 3
\* records a long result list may have beyond the cap of /games
MaxOver == 5

\* ------------------------------------------------------ program constants
\* orderedSearchResults.slice(0, 20)
ResultCap == 20

\* request contexts that may be alive at the same time (three contexts give
\* millions of states)
Reqs == {1, 2}
\* sub-query slots of one request: pipes.map(...) has four, a single-query
\* handler uses slot 1
Slots == 1 .. 4

\* ------------------------------------------------------------ JS values
Null == [k |-> "null"]
Undefined == [k |-> "undefined"]
\* a JS array of rows
Rows(seq) == [k |-> "rows", rows |-> seq]
\* a JS object, as a function from its keys to values
Obj(f) == [k |-> "object", fields |-> f]
\* the JSON text of a value
JsonText(v) == [k |-> "string", json |-> v]

\* JSON.stringify: undefined stays undefined, an object loses the keys whose
\* value is undefined, anything else becomes its JSON text
JSONstringify(v) ==
  IF v.k = "undefined" THEN Undefined
  ELSE IF v.k = "object"
    THEN JsonText(Obj([l \in {x \in DOMAIN v.fields : v.fields[x].k # "undefined"}
                         |-> v.fields[l]]))
    ELSE JsonText(v)

\* JSON.parse of a JSON text
JSONparse(s) == s.json

\* a test that also takes the text of an empty list for no result
Truthy_NonEmpty(v) ==
  /\ v.k \notin {"null", "undefined"}
  /\ ~(v.k = "string" /\ v.json.k = "rows" /\ v.json.rows = << >>)

\* truthiness of a value the store hands back (null when the key is absent)
Truthy(v) == v.k \notin {"null", "undefined"}

\* ------------------------------------------------------ URLSearchParams
\* a parameter list is a sequence of <<name, value>> pairs
NoValue == "<null>"

Has(p, n) == \E i \in 1 .. Len(p) : p[i][1] = n

Get(p, n) ==
  IF Has(p, n)
    THEN p[CHOOSE i \in 1 .. Len(p) :
             p[i][1] = n /\ \A j \in 1 .. (i - 1) : p[j][1] # n][2]
    ELSE NoValue

Delete(p, n) == SelectSeq(p, LAMBDA e : e[1] # n)

\* set: overwrite the first pair of that name and drop the others, or append
Set(p, n, v) ==
  IF Has(p, n)
    THEN LET first == CHOOSE i \in 1 .. Len(p) :
                        p[i][1] = n /\ \A j \in 1 .. (i - 1) : p[j][1] # n
             kept == {i \in 1 .. Len(p) : p[i][1] # n \/ i = first}
             idx == CHOOSE s \in [1 .. Cardinality(kept) -> kept] :
                      \A a, b \in 1 .. Cardinality(kept) : a < b => s[a] < s[b]
         IN [i \in 1 .. Cardinality(kept) |->
               IF idx[i] = first THEN <<n, v>> ELSE p[idx[i]]]
    ELSE Append(p, <<n, v>>)

\* a string is truthy when it is there and not empty
TruthyStr(s) == s # NoValue /\ s # ""

\* params.toString(): the query string of a parameter list
QueryString(p) == [qs |-> p]
\* new URLSearchParams(text)
ParseQuery(s) == s.qs

\* -------------------------------------------------------------- strings
\* String.prototype.toLowerCase on the names and terms of the model
ToLowerCase(s) ==
  CASE s = "Nova" -> "nova"
    [] s = "NOVA" -> "nova"
    [] s = "Zest" -> "zest"
    [] s = "Serral" -> "serral"
    [] OTHER -> s

\* String.prototype.split('+') on the inputs of the model
SplitPlus(s) ==
  CASE s = "nova+zest" -> <<"nova", "zest">>
    [] s = "nova+NOVA" -> <<"nova", "NOVA">>
    [] OTHER -> <<s>>

\* a comparison that tells the cases apart
compare_CaseSensitive(a, b) == a = b

compare(a, b) == ToLowerCase(a) = ToLowerCase(b)

\* ------------------------------------------------------------- requests
\* an inbound request: the path and the query string of its URL
Request(path, params) == [path |-> path, search |-> QueryString(params)]

SingleInputs ==
  { Request("/games", << <<"q", "nova">> >>),
    Request("/games", << <<"refresh", "">>, <<"q", "nova">> >>),
    Request("/games", << <<"fuzzy", "1">> >>),
    Request("/players", << <<"q", "nova">> >>),
    Request("/players", << <<"q", "nova">>, <<"refresh", "1">> >>),
    Request("/maps", << <<"limit", "5">>, <<"offset", "10">> >>),
    Request("/maps", << <<"offset", "10">>, <<"limit", "5">> >>),
    Request("/timeline/quantiles/game-length", << >>),
    Request("/nope", << >>) }

RecentInputs ==
  { Request("/recent", << >>),
    Request("/recent", << <<"refresh", "">> >>) }

NoRequest == [path |-> "", search |-> QueryString(<< >>)]

\* the requests of one run: concurrent requests to /games and the
\* single-query endpoints, or /recent requests served one after the other
\* (the two families use different pipes, hence different cache keys)
Workloads ==
  [Reqs -> SingleInputs]
    \cup { [r \in Reqs |-> IF r = 1 THEN i ELSE NoRequest] : i \in RecentInputs }

\* ------------------------------------------------------------- routing
\* the switch of handleRequest: the handler a path is dispatched to
Handler(path) ==
  CASE path = "/games" -> "searchGames"
    [] path = "/players" -> "searchPlayers"
    [] path = "/maps" -> "searchMaps"
    [] path = "/events" -> "searchEvents"
    [] path = "/builds" -> "searchPlayerBuilds"
    [] path \in {"/timeline/game-length", "/timeline/army-value",
                 "/timeline/collection-rate", "/timeline/workers-active"}
         -> "searchTimelines"
    [] path = "/recent" -> "fetchRecent"
    [] OTHER -> "invalid"

\* the pipe of a handler, as the segments of its name between underscores
Pipe(path, requestParams) ==
  CASE path = "/games" ->
         IF Has(requestParams, "fuzzy")
           THEN <<"sc2", "fuzzy", "game", "search">>
           ELSE <<"sc2", "game", "search">>
    [] path = "/players" -> <<"sc2", "player", "search">>
    [] path = "/maps" -> <<"sc2", "map", "search">>
    [] path = "/events" -> <<"sc2", "event", "search">>
    [] path = "/builds" -> <<"sc2", "player", "builds">>
    [] path = "/timeline/game-length" ->
         <<"sc2", "timeline", "game", "length", "search">>
    [] path = "/timeline/collection-rate" ->
         <<"sc2", "timeline", "collection", "rate", "search">>
    [] path = "/timeline/army-value" ->
         <<"sc2", "timeline", "army", "value", "search">>
    [] path = "/timeline/workers-active" ->
         <<"sc2", "timeline", "workers", "active", "search">>
    [] OTHER -> << >>

\* the four pipes of fetchRecent, in the order of the array
pipes ==
  << <<"sc2", "recent", "games">>, <<"sc2", "recent", "players">>,
     <<"sc2", "recent", "maps">>, <<"sc2", "recent", "events">> >>

\* const params = new URLSearchParams(url.search)
RequestParams(request) == ParseQuery(request.search)

\* searchParams of handleRequest: a copy without refresh and q, with q's
\* value under input when q is not empty
SearchParams(request) ==
  LET params == RequestParams(request)
      copy == ParseQuery(QueryString(params))
      stripped == Delete(Delete(copy, "refresh"), "q")
  IN IF TruthyStr(Get(params, "q"))
       THEN Set(stripped, "input", Get(params, "q"))
       ELSE stripped

\* searchParams forwarded as handleRequest built them
ForwardedParams_KeepFuzzy(request) == SearchParams(request)

\* searchParams as the handler forwards them: searchGames drops fuzzy
ForwardedParams(request) ==
  IF request.path = "/games" /\ Has(RequestParams(request), "fuzzy")
    THEN Delete(SearchParams(request), "fuzzy")
    ELSE SearchParams(request)

\* `${endpoint}?${searchParams.toString()}` of a single-query handler: the
\* cache key
SingleUrl(request) ==
  [pipe |-> Pipe(request.path, RequestParams(request)), mark |-> "?",
   query |-> QueryString(ForwardedParams(request))]

\* a key built from the endpoint alone, without the pipe
RecentUrl_Shared(pipe) ==
  [pipe |-> <<"sc2", "recent">>, mark |-> "", query |-> QueryString(<< >>)]

\* `${endpoint}${pipe}.json` of a sub-query of fetchRecent: the cache key
RecentUrl(pipe) == [pipe |-> pipe, mark |-> "", query |-> QueryString(<< >>)]

\* the secret bound to the environment context r runs in: the secret is
\* rotated between the deployments that serve the two contexts
TINYBIRD_API_KEY(r) == IF r = 1 THEN "secret-token" ELSE "rotated-token"

\* `${url}&token=${TINYBIRD_API_KEY}` (`${url}?token=...` in fetchRecent):
\* the URL the backend is called with
AuthorizedUrl(url, token) == [url |-> url, token |-> token]

\* the store addressed by the URL that carries the token
CacheKey_Authorized(url, authorizedUrl) == authorizedUrl

\* the key the handler passes to SEARCH_RESULTS_CACHE.get and .put: of its
\* two locals url and authorizedUrl, url
CacheKey(url, authorizedUrl) == url

\* a test of the value of refresh instead of its presence
HasRefresh_Value(request) == TruthyStr(Get(RequestParams(request), "refresh"))

\* requestParams.has('refresh')
HasRefresh(request) == Has(RequestParams(request), "refresh")

\* the last segment of the pipe as it is
DataType_Last(pipe) == pipe[Len(pipe)]

\* dataType of a sub-query: the last segment of the pipe, games as replays
DataType(pipe) ==
  LET last == pipe[Len(pipe)]
  IN IF last = "games" THEN "replays" ELSE last

\* -------------------------------------------------------------- backend
\* pipes whose rows are replay records, with JSON-encoded builds and players
ReplayPipes ==
  { <<"sc2", "game", "search">>, <<"sc2", "fuzzy", "game", "search">>,
    <<"sc2", "recent", "games">> }

\* the players of the i-th replay of the backend
PlayersOf(i) ==
  CASE i % 3 = 1 -> << [name |-> "Serral"], [name |-> "Zest"] >>
    [] i % 3 = 2 -> << [name |-> "Nova"], [name |-> "NOVA"] >>
    [] OTHER -> << [name |-> "Serral"], [name |-> "nova"] >>

\* the i-th row of a pipe as the backend sends it
BackendRow(pipe, i) ==
  IF pipe \in ReplayPipes
    THEN [id |-> i, src |-> pipe,
          builds |-> JsonText([k |-> "builds", of |-> i]),
          players |-> JsonText(Rows(PlayersOf(i)))]
    ELSE [id |-> i, src |-> pipe]

\* the row lists a pipe may answer with: a search pipe finds nothing or
\* MaxRows rows, a pipe of recent items always has its MaxRows rows
RowLists(pipe) ==
  { [i \in 1 .. n |-> BackendRow(pipe, i)] :
      n \in (IF pipe[2] = "recent" THEN {} ELSE {0}) \cup {MaxRows} }

\* bodies of backend responses: the TinybirdResponse envelope, a JSON error
\* object without data, and a body that is no JSON
Envelope(data) == Obj([data |-> data])
ErrorBody == Obj([error |-> [k |-> "message"]])
TextBody == [k |-> "text"]

\* what one backend call may answer: a success status carries the envelope,
\* an error status any of the bodies
BackendResponses(pipe) ==
  { [k |-> "response", status |-> 200, body |-> Envelope(Rows(l))] :
      l \in RowLists(pipe) }
    \cup { [k |-> "response", status |-> 500, body |-> b] :
             b \in { Envelope(Rows(l)) : l \in RowLists(pipe) }
                     \cup {ErrorBody, TextBody} }

\* searchResponse.data of a parsed body
DataOf(body) ==
  IF "data" \in DOMAIN body.fields THEN body.fields.data ELSE Undefined

\* ------------------------------------------------------- post-processing
\* {...record, builds: JSON.parse(record.builds), players: JSON.parse(...)}
DecodeRecord(record) ==
  [record EXCEPT !.builds = JSONparse(record.builds),
                 !.players = JSONparse(record.players)]

DecodeAll(rows) == [i \in 1 .. Len(rows) |-> DecodeRecord(rows[i])]

\* terms.some((term) => compare(player.name, term))
ExactMatch(player, terms) ==
  \E j \in 1 .. Len(terms) : compare(player.name, terms[j])

\* a loop over the players without the exact flag: one push per matching
\* player
RECURSIVE PushedByPlayers_NoFlag(_, _, _, _)
PushedByPlayers_NoFlag(replay, terms, i, exact) ==
  IF i > Len(replay.players.rows) THEN << >>
  ELSE IF ExactMatch(replay.players.rows[i], terms)
    THEN <<replay>> \o PushedByPlayers_NoFlag(replay, terms, i + 1, TRUE)
    ELSE PushedByPlayers_NoFlag(replay, terms, i + 1, exact)

\* replay.players.forEach(...): the replays pushed onto exactMatches while
\* walking the players from the i-th on; exact is the flag of the loop
RECURSIVE PushedByPlayers(_, _, _, _)
PushedByPlayers(replay, terms, i, exact) ==
  IF i > Len(replay.players.rows) THEN << >>
  ELSE IF ~exact /\ ExactMatch(replay.players.rows[i], terms)
    THEN <<replay>> \o PushedByPlayers(replay, terms, i + 1, TRUE)
    ELSE PushedByPlayers(replay, terms, i + 1, exact)

\* searchResults.forEach(...): exactMatches and otherMatches after the replays
\* from the i-th on
RECURSIVE Partition(_, _, _)
Partition(results, terms, i) ==
  IF i > Len(results) THEN [exactMatches |-> << >>, otherMatches |-> << >>]
  ELSE LET pushed == PushedByPlayers(results[i], terms, 1, FALSE)
           rest == Partition(results, terms, i + 1)
       IN [exactMatches |-> pushed \o rest.exactMatches,
           otherMatches |-> (IF pushed = << >> THEN <<results[i]>> ELSE << >>)
                              \o rest.otherMatches]

\* orderedSearchResults of searchGames
Reorder(searchResults, searchParams) ==
  IF TruthyStr(Get(searchParams, "input"))
    THEN LET parts == Partition(searchResults,
                                SplitPlus(Get(searchParams, "input")), 1)
         IN parts.exactMatches \o parts.otherMatches
    ELSE searchResults

\* a slice whose end index is included
Slice_Inclusive(seq, n) ==
  SubSeq(seq, 1, IF Len(seq) < n + 1 THEN Len(seq) ELSE n + 1)

\* Array.prototype.slice(0, n)
Slice(seq, n) == SubSeq(seq, 1, IF Len(seq) < n THEN Len(seq) ELSE n)

\* serializedSearchResults of searchGames from the rows of the backend
GamesSerialized(data, searchParams) ==
  JSONstringify(Rows(Slice(Reorder(DecodeAll(data.rows), searchParams),
                           ResultCap)))

\* serializedSearchResults of searchPlayers, searchMaps, searchEvents,
\* searchPlayerBuilds and searchTimelines
PlainSerialized(data) == JSONstringify(data)

\* resultData of a sub-query of fetchRecent
RecentResultData(dataType, data) ==
  IF dataType = "replays" THEN Rows(DecodeAll(data.rows)) ELSE data

\* serializedResults of a sub-query of fetchRecent
RecentSerialized(data) == JSONstringify(data)

\* ---------------------------------------------------------------- state
VARIABLES
  cache,    \* SEARCH_RESULTS_CACHE: a set of [key, value] entries, one per key
  req,      \* the request each context serves
  phase,    \* "idle", "running", "responded" or "failed" (the handler threw)
  resp,     \* the Response of a context that responded
  tasks     \* per context and slot: the locals of the handler / sub-query

vars == <<cache, req, phase, resp, tasks>>

NoApi == [k |-> "none"]
NoUrl == [k |-> "none"]
NoResp == [k |-> "none"]

\* the locals of a handler before it runs: pc is the await it is suspended at,
\* cached is cachedResult, api is apiResponse, ser the serialized results,
\* ret the value the sub-query resolves to; nGet, nFetch and nPut count the
\* calls it has made, key is the key of its last get or put, fetched the URL
\* of its backend call, err is what it threw
IdleTask ==
  [pc |-> "none", cached |-> Null, api |-> NoApi, ser |-> Undefined,
   ret |-> Undefined, nGet |-> 0, nFetch |-> 0, nPut |-> 0,
   key |-> NoUrl, fetched |-> NoUrl, err |-> "none"]

\* KVNamespace.get(key): the stored text, or null
KVGet(c, key) ==
  IF \E e \in c : e.key = key
    THEN (CHOOSE e \in c : e.key = key).value
    ELSE Null

\* KVNamespace.get(key, {type: 'json'}): the stored text parsed, or null
KVGetJson(c, key) ==
  IF KVGet(c, key).k = "null" THEN Null ELSE JSONparse(KVGet(c, key))

\* a store in which the first write under a key stays
KVPut_KeepFirst(c, key, value) ==
  IF \E e \in c : e.key = key THEN c ELSE c \cup {[key |-> key, value |-> value]}

\* KVNamespace.put(key, value): the store afterwards
KVPut(c, key, value) ==
  {e \in c : e.key # key} \cup {[key |-> key, value |-> value]}

\* new Response(body, {headers: HEADERS, status}); the status defaults to 200
Response(body, status) == [status |-> status, body |-> body]

Init ==
  /\ cache = {}
  /\ req \in Workloads
  /\ phase = [r \in Reqs |-> "idle"]
  /\ resp = [r \in Reqs |-> NoResp]
  /\ tasks = [r \in Reqs |-> [t \in Slots |-> IdleTask]]

\* Response.ok
Ok(status) == status >= 200 /\ status <= 299

\* a put that is issued whatever the status was
ShouldPut_Always(apiResponse) == TRUE

\* if (apiResponse.ok): the guard of the cache put
ShouldPut(apiResponse) == Ok(apiResponse.status)

\* a handler that calls the backend again when the answer is no success
AfterFetch_Retry(apiResponse) ==
  IF ShouldPut(apiResponse) THEN "put" ELSE "fetch"

\* a handler that returns without the put
AfterFetch_SkipPut(apiResponse) == "done"

\* where a handler goes once it has serialized the results of a backend
\* answer: to the put behind if (apiResponse.ok), or straight to its return
AfterFetch(apiResponse) ==
  IF ShouldPut(apiResponse) THEN "put" ELSE "done"

\* the calls of context r that went wrong so far
Failures(r) ==
  Cardinality({ t \in Slots :
                  \/ tasks[r][t].err \in {"get", "transport", "put"}
                  \/ tasks[r][t].api.k = "response" /\ ~Ok(tasks[r][t].api.status) })

\* one more call of context r may go wrong
MayFail(r) == Failures(r) < MaxFailures

\* the await a handler reaches first
FirstAwait(request) == IF HasRefresh(request) THEN "fetch" ELSE "get"

\* handleRequest up to the first await of the handler it dispatches to
Receive(r) ==
  /\ phase[r] = "idle"
  /\ req[r] # NoRequest
  /\ LET h == Handler(req[r].path)
     IN IF h = "invalid"
          THEN /\ resp' = [resp EXCEPT ![r] =
                    Response([k |-> "message", path |-> req[r].path], 400)]
               /\ phase' = [phase EXCEPT ![r] = "responded"]
               /\ UNCHANGED tasks
          ELSE /\ tasks' = [tasks EXCEPT ![r] =
                    [t \in Slots |->
                       IF h = "fetchRecent" \/ t = 1
                         THEN [IdleTask EXCEPT !.pc = FirstAwait(req[r])]
                         ELSE IdleTask]]
               /\ phase' = [phase EXCEPT ![r] = "running"]
               /\ UNCHANGED resp
  /\ UNCHANGED <<cache, req>>

IsSingle(r) == Handler(req[r].path) \notin {"invalid", "fetchRecent"}
IsRecent(r) == Handler(req[r].path) = "fetchRecent"

\* the handler of context r throws: the request ends without a Response
Throw(r, t, what, task) ==
  /\ tasks' = [tasks EXCEPT ![r][t] = [task EXCEPT !.pc = "threw", !.err = what]]
  /\ phase' = [phase EXCEPT ![r] = "failed"]
  /\ UNCHANGED resp

\* the handler of context r returns a Response
Return(r, task, response) ==
  /\ tasks' = [tasks EXCEPT ![r][1] = [task EXCEPT !.pc = "done"]]
  /\ resp' = [resp EXCEPT ![r] = response]
  /\ phase' = [phase EXCEPT ![r] = "responded"]

\* a single-query handler or searchGames: await SEARCH_RESULTS_CACHE.get(url)
\* and the hit branch
SingleGet(r) ==
  /\ phase[r] = "running" /\ IsSingle(r)
  /\ tasks[r][1].pc = "get"
  /\ LET url == SingleUrl(req[r])
         authorizedUrl == AuthorizedUrl(url, TINYBIRD_API_KEY(r))
         task == [tasks[r][1] EXCEPT !.nGet = @ + 1,
                                     !.key = CacheKey(url, authorizedUrl)]
         cachedResult == KVGet(cache, task.key)
     IN \E raises \in BOOLEAN :
          IF raises
            THEN /\ MayFail(r)
                 /\ Throw(r, 1, "get", task)
            ELSE IF Truthy(cachedResult)
                      THEN Return(r, [task EXCEPT !.cached = cachedResult],
                                  Response(cachedResult, 200))
                 ELSE /\ tasks' = [tasks EXCEPT ![r][1] =
                                     [task EXCEPT !.pc = "fetch"]]
                      /\ UNCHANGED <<resp, phase>>
  /\ UNCHANGED <<cache, req>>

\* serializedSearchResults of the handler of a path
Serialized(request, data) ==
  IF Handler(request.path) = "searchGames"
    THEN GamesSerialized(data, ForwardedParams(request))
    ELSE PlainSerialized(data)

\* a single-query handler or searchGames: await fetch(authorizedUrl), await
\* apiResponse.json(), the post-processing, and the return on a status that
\* is not ok
SingleFetch(r) ==
  /\ phase[r] = "running" /\ IsSingle(r)
  /\ tasks[r][1].pc = "fetch"
  /\ LET url == SingleUrl(req[r])
         authorizedUrl == AuthorizedUrl(url, TINYBIRD_API_KEY(r))
         task == [tasks[r][1] EXCEPT !.nFetch = @ + 1,
                                     !.fetched = authorizedUrl]
     IN \/ /\ MayFail(r)
           /\ Throw(r, 1, "transport", task)
        \/ \E apiResponse \in BackendResponses(url.pipe) :
             LET got == [task EXCEPT !.api = apiResponse]
             IN /\ Ok(apiResponse.status) \/ MayFail(r)
                /\ IF apiResponse.body.k = "text"
                     THEN Throw(r, 1, "json", got)
                   ELSE IF DataOf(apiResponse.body).k = "undefined"
                           /\ Handler(req[r].path) = "searchGames"
                     THEN Throw(r, 1, "type", got)
                   ELSE LET ser == Serialized(req[r], DataOf(apiResponse.body))
                        IN IF AfterFetch(apiResponse) = "done"
                             THEN Return(r, [got EXCEPT !.ser = ser],
                                         Response(ser, apiResponse.status))
                             ELSE /\ tasks' = [tasks EXCEPT ![r][1] =
                                       [got EXCEPT !.pc = AfterFetch(apiResponse),
                                                   !.ser = ser]]
                                  /\ UNCHANGED <<resp, phase>>
  /\ UNCHANGED <<cache, req>>

\* the rows stored as the backend sent them
PutValue_Raw(serialized, data) == JSONstringify(data)

\* the value searchGames and the single-query handlers pass to put: the
\* serialized results they also respond with
PutValue(serialized, data) == serialized

\* a single-query handler or searchGames: await SEARCH_RESULTS_CACHE.put(...)
\* and the return
SinglePut(r) ==
  /\ phase[r] = "running" /\ IsSingle(r)
  /\ tasks[r][1].pc = "put"
  /\ LET url == SingleUrl(req[r])
         authorizedUrl == AuthorizedUrl(url, TINYBIRD_API_KEY(r))
         task == [tasks[r][1] EXCEPT !.nPut = @ + 1,
                                     !.key = CacheKey(url, authorizedUrl)]
     IN \E raises \in BOOLEAN :
          IF raises
            THEN /\ MayFail(r)
                 /\ Throw(r, 1, "put", task)
                 /\ UNCHANGED cache
            ELSE /\ cache' = KVPut(cache, task.key,
                                   PutValue(task.ser, DataOf(task.api.body)))
                 /\ Return(r, task, Response(task.ser, task.api.status))
  /\ UNCHANGED req

\* a sub-query of fetchRecent ends: it resolves to {[dataType]: value}, or it
\* throws and its promise rejects
Settle(r, t, task) ==
  /\ tasks' = [tasks EXCEPT ![r][t] = task]
  /\ UNCHANGED <<resp, phase, req>>

\* sub-query t of fetchRecent: await SEARCH_RESULTS_CACHE.get(url, {type:
\* 'json'}) and the hit branch
RecentGet(r, t) ==
  /\ IsRecent(r)
  /\ tasks[r][t].pc = "get"
  /\ LET url == RecentUrl(pipes[t])
         authorizedUrl == AuthorizedUrl(url, TINYBIRD_API_KEY(r))
         task == [tasks[r][t] EXCEPT !.nGet = @ + 1,
                                     !.key = CacheKey(url, authorizedUrl)]
         cachedResult == KVGetJson(cache, task.key)
     IN \E raises \in BOOLEAN :
          IF raises
            THEN /\ MayFail(r)
                 /\ Settle(r, t, [task EXCEPT !.pc = "threw", !.err = "get"])
            ELSE IF Truthy(cachedResult)
                   THEN Settle(r, t, [task EXCEPT !.pc = "done",
                                                  !.cached = cachedResult,
                                                  !.ret = cachedResult])
                   ELSE Settle(r, t, [task EXCEPT !.pc = "fetch"])
  /\ UNCHANGED cache

\* sub-query t of fetchRecent: await fetch(authorizedUrl), await
\* response.json(), resultData, serializedResults, and the return on a status
\* that is not ok
RecentFetch(r, t) ==
  /\ IsRecent(r)
  /\ tasks[r][t].pc = "fetch"
  /\ LET url == RecentUrl(pipes[t])
         authorizedUrl == AuthorizedUrl(url, TINYBIRD_API_KEY(r))
         task == [tasks[r][t] EXCEPT !.nFetch = @ + 1,
                                     !.fetched = authorizedUrl]
         dataType == DataType(pipes[t])
     IN \/ /\ MayFail(r)
           /\ Settle(r, t, [task EXCEPT !.pc = "threw", !.err = "transport"])
        \/ \E response \in BackendResponses(pipes[t]) :
             LET got == [task EXCEPT !.api = response]
             IN /\ Ok(response.status) \/ MayFail(r)
                /\ IF response.body.k = "text"
                     THEN Settle(r, t, [got EXCEPT !.pc = "threw", !.err = "json"])
                   ELSE IF DataOf(response.body).k = "undefined"
                           /\ dataType = "replays"
                     THEN Settle(r, t, [got EXCEPT !.pc = "threw", !.err = "type"])
                   ELSE LET data == DataOf(response.body)
                            resultData == IF data.k = "undefined" THEN Undefined
                                          ELSE RecentResultData(dataType, data)
                            computed == [got EXCEPT !.ser = RecentSerialized(data),
                                                    !.ret = resultData]
                        IN Settle(r, t, [computed EXCEPT
                                           !.pc = AfterFetch(response)])
  /\ UNCHANGED cache

\* sub-query t of fetchRecent: await SEARCH_RESULTS_CACHE.put(...) and the return
RecentPut(r, t) ==
  /\ IsRecent(r)
  /\ tasks[r][t].pc = "put"
  /\ LET url == RecentUrl(pipes[t])
         authorizedUrl == AuthorizedUrl(url, TINYBIRD_API_KEY(r))
         task == [tasks[r][t] EXCEPT !.nPut = @ + 1,
                                     !.key = CacheKey(url, authorizedUrl)]
     IN \E raises \in BOOLEAN :
          IF raises
            THEN /\ MayFail(r)
                 /\ Settle(r, t, [task EXCEPT !.pc = "threw", !.err = "put"])
                 /\ UNCHANGED cache
            ELSE /\ cache' = KVPut(cache, task.key, task.ser)
                 /\ Settle(r, t, [task EXCEPT !.pc = "done"])

\* responses.reduce((allResults, currentResults) => ({...allResults,
\* ...currentResults}), {}) over the first n elements of responses
RECURSIVE Reduce(_, _)
Reduce(responses, n) ==
  IF n = 0 THEN << >>
  ELSE responses[n] @@ Reduce(responses, n - 1)

\* the merged object of fetchRecent from the values its sub-queries resolved to
RecentResults(ts) ==
  Obj(Reduce([t \in Slots |-> DataType(pipes[t]) :> ts[t].ret], Len(pipes)))

\* Promise.all resolves: all four sub-queries returned; fetchRecent merges
\* and responds
RecentResolve(r) ==
  /\ phase[r] = "running" /\ IsRecent(r)
  /\ \A t \in Slots : tasks[r][t].pc = "done"
  /\ resp' = [resp EXCEPT ![r] =
                Response(JSONstringify(RecentResults(tasks[r])), 200)]
  /\ phase' = [phase EXCEPT ![r] = "responded"]
  /\ UNCHANGED <<cache, req, tasks>>

\* Promise.all rejects as soon as one sub-query threw: fetchRecent throws,
\* the other sub-queries keep running
RecentReject(r) ==
  /\ phase[r] = "running" /\ IsRecent(r)
  /\ \E t \in Slots : tasks[r][t].pc = "threw"
  /\ phase' = [phase EXCEPT ![r] = "failed"]
  /\ UNCHANGED <<cache, req, resp, tasks>>

\* the request is over and nothing of it is still running: the runtime drops
\* its context, and the client may issue the request again
Retire(r) ==
  /\ phase[r] \in {"responded", "failed"}
  /\ \A t \in Slots : tasks[r][t].pc \in {"none", "done", "threw"}
  /\ phase' = [phase EXCEPT ![r] = "idle"]
  /\ resp' = [resp EXCEPT ![r] = NoResp]
  /\ tasks' = [tasks EXCEPT ![r] = [t \in Slots |-> IdleTask]]
  /\ UNCHANGED <<cache, req>>

Next ==
  \E r \in Reqs :
    \/ Receive(r)
    \/ SingleGet(r)
    \/ SingleFetch(r)
    \/ SinglePut(r)
    \/ \E t \in Slots : RecentGet(r, t) \/ RecentFetch(r, t) \/ RecentPut(r, t)
    \/ RecentResolve(r)
    \/ RecentReject(r)
    \/ Retire(r)

Spec == Init /\ [][Next]_vars

\* ------------------------------------------- post-processing on its own
\* requests whose results are post-processed: free-text terms in either case,
\* two terms, an empty term, no term, the fuzzy pipe, and a plain endpoint
PostInputs ==
  { Request("/games", << <<"q", "nova">> >>),
    Request("/games", << <<"q", "NOVA">> >>),
    Request("/games", << <<"q", "nova+zest">> >>),
    Request("/games", << <<"q", "nova+NOVA">> >>),
    Request("/games", << <<"q", "">> >>),
    Request("/games", << >>),
    Request("/games", << <<"fuzzy", "1">>, <<"q", "zest">> >>),
    Request("/players", << <<"q", "nova">> >>) }

\* the result lists of a pipe: the first MaxPerm rows in every order and
\* selection, and the lists of the first n rows for n around the cap
PostLists(pipe) ==
  { [i \in 1 .. Len(ids) |-> BackendRow(pipe, ids[i])] :
      ids \in { s \in UNION { [1 .. n -> 1 .. MaxPerm] : n \in 0 .. MaxPerm } :
                 \A i, j \in 1 .. Len(s) : i # j => s[i] # s[j] } }
    \cup { [i \in 1 .. n |-> BackendRow(pipe, i)] :
             n \in (ResultCap - 1) .. (ResultCap + MaxOver) }

InitPost ==
  /\ cache = {}
  /\ req \in { [r \in Reqs |-> IF r = 1 THEN i ELSE NoRequest] : i \in PostInputs }
  /\ phase = [r \in Reqs |-> "idle"]
  /\ resp = [r \in Reqs |-> NoResp]
  /\ tasks = [r \in Reqs |-> [t \in Slots |-> IdleTask]]

\* the handler of a request from the successful answer of the backend to its
\* Response: the post-processing and the serialization
ApplyPost(r) ==
  /\ phase[r] = "idle"
  /\ req[r] # NoRequest
  /\ \E l \in PostLists(SingleUrl(req[r]).pipe) :
       LET apiResponse == [k |-> "response", status |-> 200,
                           body |-> Envelope(Rows(l))]
           ser == Serialized(req[r], DataOf(apiResponse.body))
       IN /\ tasks' = [tasks EXCEPT ![r][1] =
                         [IdleTask EXCEPT
                            !.pc = "done", !.api = apiResponse, !.ser = ser,
                            !.nFetch = 1,
                            !.fetched = AuthorizedUrl(SingleUrl(req[r]),
                                                      TINYBIRD_API_KEY(r))]]
          /\ resp' = [resp EXCEPT ![r] = Response(ser, apiResponse.status)]
          /\ phase' = [phase EXCEPT ![r] = "responded"]
  /\ UNCHANGED <<cache, req>>

NextPost == \E r \in Reqs : ApplyPost(r)

SpecPost == InitPost /\ [][NextPost]_vars

\* ======================================================== properties
Over(r) == phase[r] \in {"responded", "failed"}
NotOk(task) == task.api.k = "response" /\ ~Ok(task.api.status)
Raised == {"get", "transport", "put"}

\* C1 -- No poisoning: a handler or sub-query whose backend call returned a
\* status that is not a success makes no cache put, and the step in which it
\* handles that answer leaves the whole store as it was.
C1_NoPoisoning ==
  [][\A r \in Reqs, t \in Slots :
       (tasks'[r][t] # tasks[r][t] /\ NotOk(tasks'[r][t]))
         => (cache' = cache /\ tasks'[r][t].nPut = 0)]_vars

\* a request with refresh got an error status while the store holds an entry
\* under its key, and has responded
C1_Witness ==
  \E r \in Reqs :
    /\ IsSingle(r) /\ phase[r] = "responded"
    /\ NotOk(tasks[r][1])
    /\ KVGet(cache, SingleUrl(req[r])).k # "null"

\* C2 -- Cache bypass: a request that carries refresh, with any value, never
\* calls the cache get, in none of its sub-queries, and every handler or
\* sub-query of it that got past its first await has called the backend.
C2_CacheBypass ==
  \A r \in Reqs :
    (phase[r] # "idle" /\ Handler(req[r].path) # "invalid"
       /\ \E i \in 1 .. Len(req[r].search.qs) : req[r].search.qs[i][1] = "refresh")
      => \A t \in Slots :
           /\ tasks[r][t].nGet = 0
           /\ tasks[r][t].pc # "get"
           /\ tasks[r][t].pc \in {"put", "done", "threw"} => tasks[r][t].nFetch = 1

\* a request with an empty refresh has called the backend although the store
\* holds an entry under its key
C2_Witness ==
  \E r \in Reqs :
    /\ IsSingle(r) /\ Get(RequestParams(req[r]), "refresh") = ""
    /\ tasks[r][1].pc = "put"
    /\ KVGet(cache, SingleUrl(req[r])).k # "null"

\* C3 -- Cache hit short-circuit: when the get of a request without refresh to
\* /games or a single-query endpoint returns while the store holds an entry
\* under the key, the handler responds 200 with exactly the stored text, and
\* has made no backend call and no put.
C3_HitShortCircuit ==
  [][\A r \in Reqs :
       (/\ IsSingle(r)
        /\ tasks[r][1].pc = "get" /\ tasks'[r][1].pc # "get"
        /\ tasks'[r][1].err # "get"
        /\ KVGet(cache, SingleUrl(req[r])).k # "null")
         => /\ phase'[r] = "responded"
            /\ resp'[r] = Response(KVGet(cache, SingleUrl(req[r])), 200)
            /\ tasks'[r][1].pc = "done"
            /\ tasks'[r][1].nFetch = 0 /\ tasks'[r][1].nPut = 0
            /\ cache' = cache]_vars

\* a request was served the text of an empty result list from the store
C3_Witness ==
  \E r \in Reqs :
    /\ IsSingle(r) /\ phase[r] = "responded"
    /\ tasks[r][1].cached = JsonText(Rows(<< >>))
    /\ resp[r].body = tasks[r][1].cached

\* C4 -- Cache write failure is not fatal: a handler whose put raised still
\* responds, with the serialized results and the status of the backend.
C4_PutFailureNotFatal ==
  \A r \in Reqs :
    (IsSingle(r) /\ tasks[r][1].err = "put")
      => /\ phase[r] = "responded"
         /\ resp[r] = Response(tasks[r][1].ser, tasks[r][1].api.status)

\* C5 -- Cache read failure is a miss: a get that raised never ends the
\* handler or sub-query; it goes on to the backend as on a miss.
C5_GetFailureIsMiss ==
  \A r \in Reqs, t \in Slots :
    tasks[r][t].nGet = 1 /\ tasks[r][t].nFetch = 0
      => tasks[r][t].pc \in {"fetch", "done"}

\* C6 -- Status propagation: a request to /games or a single-query endpoint
\* that got an answer from the backend ends with a response whose status is
\* the status of that answer.
C6_StatusPropagation ==
  \A r \in Reqs :
    (IsSingle(r) /\ tasks[r][1].api.k = "response" /\ Over(r))
      => phase[r] = "responded" /\ resp[r].status = tasks[r][1].api.status

\* C7 -- Backend error body forwarding: a request to /games or a single-query
\* endpoint whose backend answer has an error status ends with a response
\* of that status whose body is the text of the backend's body (or of the
\* rows in it).
C7_ErrorBodyForwarded ==
  \A r \in Reqs :
    (IsSingle(r) /\ NotOk(tasks[r][1]) /\ Over(r))
      => /\ phase[r] = "responded"
         /\ resp[r].status = tasks[r][1].api.status
         /\ resp[r].body.k = "string"
         /\ \/ resp[r].body.json = tasks[r][1].api.body
            \/ /\ tasks[r][1].api.body.k = "object"
               /\ resp[r].body.json.k = "rows"
               /\ resp[r].body.json = DataOf(tasks[r][1].api.body)

\* C8 -- Aggregate graceful degradation: a /recent request in which backend
\* calls returned an error status, and no store or transport call raised,
\* does not fail; it responds 200.
C8_RecentDegradesGracefully ==
  \A r \in Reqs :
    (/\ IsRecent(r) /\ Over(r)
     /\ \E t \in Slots : NotOk(tasks[r][t])
     /\ \A t \in Slots : tasks[r][t].err \notin Raised)
      => phase[r] = "responded" /\ resp[r].status = 200

\* C9 -- Recent aggregate shape: the response of a /recent request whose four
\* sub-queries each resolved to a row list is the text of an object with
\* exactly the keys replays, players, maps, events, each holding the row list
\* of the sub-query of its own pipe.
C9_Labels == <<"replays", "players", "maps", "events">>

C9_RecentShape ==
  \A r \in Reqs :
    (/\ IsRecent(r) /\ phase[r] = "responded"
     /\ \A t \in Slots : tasks[r][t].ret.k = "rows")
      => /\ resp[r].status = 200
         /\ resp[r].body.k = "string" /\ resp[r].body.json.k = "object"
         /\ DOMAIN resp[r].body.json.fields = {"replays", "players", "maps", "events"}
         /\ \A t \in Slots :
              LET list == resp[r].body.json.fields[C9_Labels[t]]
              IN /\ list = tasks[r][t].ret
                 /\ \A i \in 1 .. Len(list.rows) : list.rows[i].src = pipes[t]

\* a /recent request responded with two lists from the store and two from the
\* backend
C9_Witness ==
  \E r \in Reqs :
    /\ IsRecent(r) /\ phase[r] = "responded"
    /\ \A t \in Slots : tasks[r][t].ret.k = "rows" /\ tasks[r][t].ret.rows # << >>
    /\ \E a, b \in Slots : tasks[r][a].nFetch = 1 /\ tasks[r][b].nFetch = 0

\* the replay records of a response body
ReplaysOf(r) ==
  IF resp[r].body.k # "string" THEN << >>
  ELSE IF resp[r].body.json.k = "rows" THEN resp[r].body.json.rows
  ELSE IF "replays" \in DOMAIN resp[r].body.json.fields
    THEN resp[r].body.json.fields["replays"].rows
    ELSE << >>

\* C10 -- Nested decode in every response: in every response of /games and
\* in the replays of every /recent response, from the backend or from the
\* store, builds and players of each replay record are decoded values, not
\* JSON texts.
C10_NestedDecoded ==
  \A r \in Reqs :
    (phase[r] = "responded" /\ req[r].path \in {"/games", "/recent"})
      => \A i \in 1 .. Len(ReplaysOf(r)) :
           /\ ReplaysOf(r)[i].builds.k # "string"
           /\ ReplaysOf(r)[i].players.k # "string"

\* the ids of a row list
IdsOf(rows) == [i \in 1 .. Len(rows) |-> rows[i].id]

\* a decoded replay has a player whose name is one of the terms, whatever
\* the case of either
NamesATerm(replay, terms) ==
  \E i \in 1 .. Len(replay.players.rows), j \in 1 .. Len(terms) :
    ToLowerCase(replay.players.rows[i].name) = ToLowerCase(terms[j])

\* the decoded rows of the backend answer of a request
DecodedOf(r) == DecodeAll(DataOf(tasks[r][1].api.body).rows)

\* C11 -- Exact-match promotion: for a /games request with a non-empty
\* free-text term the reordered list is the stable partition of the decoded
\* backend list: the replays with a player named like a term first, then the
\* others, each group in the order of the backend; the response carries it.
C11_ExactMatchPromotion ==
  \A r \in Reqs :
    (/\ phase[r] = "responded" /\ req[r].path = "/games"
     /\ Get(RequestParams(req[r]), "q") \notin {NoValue, ""})
      => LET terms == SplitPlus(Get(RequestParams(req[r]), "q"))
             list == DecodedOf(r)
             expected ==
               SelectSeq(list, LAMBDA x : NamesATerm(x, terms))
                 \o SelectSeq(list, LAMBDA x : ~NamesATerm(x, terms))
         IN /\ Reorder(list, ForwardedParams(req[r])) = expected
            /\ Len(list) <= ResultCap => resp[r].body = JsonText(Rows(expected))

\* the backend listed a replay without a match, one with two matching
\* players, one without, one with a match: both matches were promoted
C11_Witness ==
  \E r \in Reqs :
    /\ phase[r] = "responded" /\ req[r].path = "/games"
    /\ Get(RequestParams(req[r]), "q") = "nova"
    /\ IdsOf(DecodedOf(r)) = <<1, 2, 3>>
    /\ IdsOf(resp[r].body.json.rows) = <<2, 3, 1>>

\* C12 -- Result cap: a /games response to a backend list of n records has
\* exactly min(n, 20) records, the first min(n, 20) of the reordered list (of
\* the backend's list when there is no free-text term), and it is the text
\* that is written to the store; the response of any other endpoint has all
\* the n rows of the backend.
C12_ResultCap ==
  \A r \in Reqs :
    phase[r] = "responded"
      => LET n == Len(DataOf(tasks[r][1].api.body).rows)
             m == IF n < 20 THEN n ELSE 20
             ordered == IF Get(RequestParams(req[r]), "q") \in {NoValue, ""}
                          THEN DecodedOf(r)
                          ELSE Reorder(DecodedOf(r), ForwardedParams(req[r]))
         IN /\ resp[r].body = tasks[r][1].ser
            /\ resp[r].body.k = "string" /\ resp[r].body.json.k = "rows"
            /\ IF req[r].path = "/games"
                 THEN /\ Len(resp[r].body.json.rows) = m
                      /\ resp[r].body.json.rows = [i \in 1 .. m |-> ordered[i]]
                 ELSE /\ Len(resp[r].body.json.rows) = n
                      /\ resp[r].body.json = DataOf(tasks[r][1].api.body)

\* the backend answered a /games request with a term with more than 20
\* records, a promoted one among those beyond the 20th, and the response has
\* 20 records
C12_Witness ==
  \E r \in Reqs :
    /\ phase[r] = "responded" /\ req[r].path = "/games"
    /\ Get(RequestParams(req[r]), "q") = "nova"
    /\ Len(DecodedOf(r)) > 20
    /\ Len(resp[r].body.json.rows) = 20
    /\ \E i \in 1 .. 20 : resp[r].body.json.rows[i].id > 20

\* the normalized parameters of a request as a mapping: its name-value pairs
\* whatever their order
ContentOf(request) ==
  { SearchParams(request)[i] : i \in 1 .. Len(SearchParams(request)) }

\* context a has written its entry to the store
HasStored(a) ==
  /\ phase[a] = "responded" /\ tasks[a][1].nPut = 1 /\ tasks[a][1].err = "none"

\* C13 -- Cache key determinism: of two requests to one endpoint whose
\* normalized parameters have the same content, in whatever key order they
\* arrived, the second finds the entry the first has written under its key.
C13_KeyDeterminism ==
  \A a, b \in Reqs :
    (/\ IsSingle(a) /\ req[a].path = req[b].path
     /\ ContentOf(req[a]) = ContentOf(req[b])
     /\ HasStored(a)
     /\ tasks[b][1].pc = "get")
      => /\ SingleUrl(req[a]) = SingleUrl(req[b])
         /\ KVGet(cache, SingleUrl(req[b])).k # "null"

\* the keys context r has passed to the store
KeysOf(r) == { tasks[r][t].key : t \in Slots } \ {NoUrl}

\* a secret occurs in a key: as the token of the URL, or as a value or a name
\* of its query string
HoldsSecret(key) ==
  \/ "token" \in DOMAIN key
  \/ \E i \in 1 .. Len(key.query.qs), j \in 1 .. 2, r \in Reqs :
       key.query.qs[i][j] \in {TINYBIRD_API_KEY(r), "token"}

\* C14 -- Key independence from refresh and from the token: two requests to
\* one endpoint that differ at most in the presence or value of refresh, run
\* with different tokens, pass the same key to the store, and no key passed
\* to get or put, nor any key of the store, holds the token.
C14_KeyIndependence ==
  /\ \A a, b \in Reqs :
       (/\ IsSingle(a) /\ req[a].path = req[b].path
        /\ Delete(RequestParams(req[a]), "refresh")
             = Delete(RequestParams(req[b]), "refresh"))
         => \A ka \in KeysOf(a), kb \in KeysOf(b) : ka = kb
  /\ \A r \in Reqs : \A key \in KeysOf(r) : ~HoldsSecret(key)
  /\ \A e \in cache : ~HoldsSecret(e.key)

\* a request with refresh and one without, same endpoint and parameters, have
\* called the backend with different tokens, and the entry the first wrote is
\* under the key the second read
C14_Witness ==
  \E a, b \in Reqs :
    /\ IsSingle(a) /\ req[a].path = req[b].path
    /\ HasRefresh(req[a]) /\ ~HasRefresh(req[b])
    /\ tasks[a][1].nPut = 1 /\ tasks[a][1].err = "none"
    /\ tasks[b][1].nGet = 1 /\ tasks[b][1].nFetch = 1
    /\ tasks[a][1].fetched.token # tasks[b][1].fetched.token
    /\ tasks[a][1].key = tasks[b][1].key
    /\ \E e \in cache : e.key = tasks[b][1].key

\* a query string has a parameter of that name
Mentions(query, name) == \E i \in 1 .. Len(query.qs) : query.qs[i][1] = name

\* C15 -- Fuzzy selection: the backend call of a /games request goes to the
\* fuzzy game search pipe if the request has a fuzzy parameter and to the
\* game search pipe if it has none, and neither the query string of that call
\* nor a key passed to or held by the store has a fuzzy parameter.
C15_FuzzySelection ==
  \A r \in Reqs :
    req[r].path = "/games"
      => /\ tasks[r][1].fetched # NoUrl
              => /\ tasks[r][1].fetched.url.pipe
                      = (IF Mentions(req[r].search, "fuzzy")
                           THEN <<"sc2", "fuzzy", "game", "search">>
                           ELSE <<"sc2", "game", "search">>)
                 /\ ~Mentions(tasks[r][1].fetched.url.query, "fuzzy")
         /\ \A key \in KeysOf(r) : ~Mentions(key.query, "fuzzy")
         /\ \A e \in cache : ~Mentions(e.key.query, "fuzzy")

\* a /games request with fuzzy has called the fuzzy pipe and stored the
\* answer
C15_Witness ==
  \E r \in Reqs :
    /\ req[r].path = "/games" /\ Mentions(req[r].search, "fuzzy")
    /\ HasStored(r)
    /\ tasks[r][1].fetched.url.pipe = <<"sc2", "fuzzy", "game", "search">>
    /\ \E e \in cache : e.key = tasks[r][1].key

\* the endpoints listed as single-query endpoints: four plain ones, the
\* timeline of each of the four metrics, and its quantile variant
SingleQueryPaths ==
  { "/players", "/maps", "/events", "/builds",
    "/timeline/game-length", "/timeline/army-value",
    "/timeline/collection-rate", "/timeline/workers-active",
    "/timeline/quantiles/game-length", "/timeline/quantiles/army-value",
    "/timeline/quantiles/collection-rate", "/timeline/quantiles/workers-active" }

\* C16 -- Single-query routing: a request to a single-query endpoint that got
\* its response without being served from the store has made exactly one
\* backend call.
C16_SingleQueryRouting ==
  \A r \in Reqs :
    (/\ req[r].path \in SingleQueryPaths
     /\ phase[r] = "responded"
     /\ tasks[r][1].cached.k = "null")
      => tasks[r][1].nFetch = 1

\* C17 -- No retry: no handler or sub-query calls the backend a second time,
\* whatever the first call answered and whether or not the store raised: a
\* task that has called the backend never waits for it again, and the
\* sub-queries of a /recent request call four different pipes.
C17_NoRetry ==
  \A r \in Reqs :
    /\ \A t \in Slots :
         /\ tasks[r][t].nFetch <= 1
         /\ tasks[r][t].nFetch = 1 => tasks[r][t].pc # "fetch"
         /\ (t > 1 /\ ~IsRecent(r)) => tasks[r][t].nFetch = 0
    /\ \A t, u \in Slots :
         (t # u /\ tasks[r][t].fetched # NoUrl /\ tasks[r][u].fetched # NoUrl)
           => tasks[r][t].fetched.url # tasks[r][u].fetched.url

\* a /recent request is over, each sub-query has called the backend once,
\* and one of the calls was answered with an error status or raised
C17_Witness ==
  \E r \in Reqs, t \in Slots :
    /\ Over(r) /\ \A u \in Slots : tasks[r][u].pc \in {"none", "done", "threw"}
    /\ tasks[r][t].nFetch = 1
    /\ NotOk(tasks[r][t]) \/ tasks[r][t].err = "transport"
    /\ IsRecent(r) /\ \A u \in Slots : tasks[r][u].nFetch = 1

\* C18 -- Every request terminates in a response: a request none of whose
\* store and backend calls raised never ends without a Response, and the
\* Response has status 400 for an unknown path, 200 when served from the
\* store or by /recent, and the status of the backend otherwise.
C18_AlwaysResponds ==
  \A r \in Reqs :
    (\A t \in Slots : tasks[r][t].err \notin Raised)
      => /\ phase[r] # "failed"
         /\ phase[r] = "responded"
              => resp[r].status =
                   (IF Handler(req[r].path) = "invalid" THEN 400
                    ELSE IF IsRecent(r) \/ tasks[r][1].cached.k # "null" THEN 200
                    ELSE tasks[r][1].api.status)

\* the keys of /games and the single-query endpoints
SingleKeys ==
  { SingleUrl(i) : i \in { j \in SingleInputs : Handler(j.path) # "invalid" } }

\* the entries of the store under those keys are bodies of successful
\* answers: the serialized, post-processed rows of a row list of the pipe
C19_Valid ==
  /\ \A e \in cache :
       e.key \in SingleKeys
         => \E i \in SingleInputs, l \in RowLists(e.key.pipe) :
              /\ SingleUrl(i) = e.key
              /\ e.value = Serialized(i, Rows(l))
  /\ \A e, f \in cache : e.key = f.key => e = f

\* an entry changes only in the put of a request that computes its key and
\* got a successful answer, and every put that returns leaves under its key
\* the body it carries
C19_Step ==
  /\ \A key \in SingleKeys :
       KVGet(cache', key) # KVGet(cache, key)
         => \E r \in Reqs :
              /\ SingleUrl(req[r]) = key
              /\ tasks[r][1].pc = "put" /\ tasks'[r][1].pc = "done"
              /\ Ok(tasks[r][1].api.status)
  /\ \A r \in Reqs :
       (/\ IsSingle(r)
        /\ tasks[r][1].pc = "put" /\ tasks'[r][1].pc = "done")
         => KVGet(cache', SingleUrl(req[r])) = tasks[r][1].ser

C20_AbortLeavesCache ==
  [][\A r \in Reqs :
       (\E t \in Slots : tasks[r][t].err = "transport")
         => /\ \A u \in Slots : tasks'[r][u].nPut <= tasks[r][u].nPut
            /\ phase'[r] # "responded"]_vars

\* what the calls made so far say about the order of the pipeline: the
\* backend is called after the get, or without one when refresh is present;
\* the put comes after a successful answer and its post-processing; the
\* response comes after the put on success and without a put otherwise
C21_Order ==
  \A r \in Reqs :
    IsSingle(r)
      => LET task == tasks[r][1]
         IN /\ task.nFetch = 1
                 => task.nGet = (IF HasRefresh(req[r]) THEN 0 ELSE 1)
            /\ (task.pc = "put" \/ task.nPut = 1)
                 => /\ task.nFetch = 1 /\ task.api.k = "response"
                    /\ task.api.status \in 200 .. 299
                    /\ task.ser = Serialized(req[r], DataOf(task.api.body))
            /\ task.pc = "put" => phase[r] = "running" /\ resp[r] = NoResp
            /\ (phase[r] = "responded" /\ task.nFetch = 1)
                 => /\ task.api.k = "response"
                    /\ task.nPut = (IF task.api.status \in 200 .. 299 THEN 1 ELSE 0)
                    /\ resp[r].body = task.ser

\* the awaits of a handler follow one another in the order get, backend
\* call, put, return; a handler may throw at any of them
C21_Moves ==
  \A r \in Reqs :
    (IsSingle(r) /\ tasks'[r][1].pc # tasks[r][1].pc)
      => <<tasks[r][1].pc, tasks'[r][1].pc>> \in
           { <<"none", "get">>, <<"none", "fetch">>, <<"get", "fetch">>,
             <<"get", "done">>, <<"fetch", "put">>, <<"fetch", "done">>,
             <<"put", "done">>, <<"get", "threw">>, <<"fetch", "threw">>,
             <<"put", "threw">>, <<"done", "none">>, <<"threw", "none">> }

\* C21 -- Pipeline ordering on a miss: a request to /games or a single-query
\* endpoint that reaches the backend makes its calls in the order cache get
\* (only without refresh), backend call, post-processing, cache put (only on
\* a success status), response: the put is issued after the backend answered
\* and the response is produced after the put has completed.
C21_PipelineOrder == []C21_Order /\ [][C21_Moves]_vars

\* a request without refresh has missed, called the backend, put and
\* responded
C21_Witness ==
  \E r \in Reqs :
    /\ IsSingle(r) /\ ~HasRefresh(req[r]) /\ phase[r] = "responded"
    /\ tasks[r][1].nGet = 1 /\ tasks[r][1].nFetch = 1 /\ tasks[r][1].nPut = 1
    /\ KVGet(cache, SingleUrl(req[r])) = resp[r].body

\* the four sub-queries have four keys, and every key a sub-query has passed
\* to the store is its own
C22_OwnKeys ==
  /\ \A t, u \in Slots : t # u => RecentUrl(pipes[t]) # RecentUrl(pipes[u])
  /\ \A r \in Reqs, t \in Slots :
       (IsRecent(r) /\ tasks[r][t].key # NoUrl)
         => /\ tasks[r][t].key = RecentUrl(pipes[t])
            /\ tasks[r][t].key.pipe = pipes[t]
  /\ \A r \in Reqs, t \in Slots :
       (IsRecent(r) /\ ~HasRefresh(req[r]) /\ tasks[r][t].nFetch = 1)
         => tasks[r][t].nGet = 1 /\ tasks[r][t].cached.k = "null"

\* a get that returns sends its sub-query to the backend exactly when the
\* store has no entry under the key of that sub-query, whatever the other
\* sub-queries found; a put changes the entry of its own key only
C22_Steps ==
  \A r \in Reqs, t \in Slots :
    IsRecent(r)
      => /\ (/\ tasks[r][t].pc = "get" /\ tasks'[r][t].pc # "get"
             /\ tasks'[r][t].err # "get")
              => /\ tasks'[r][t].pc = "fetch"
                      <=> ~\E e \in cache : e.key.pipe = pipes[t]
                 /\ tasks'[r][t].pc \in {"fetch", "done"}
                 /\ tasks'[r][t].nFetch = 0
                 /\ \A u \in Slots \ {t} : tasks'[r][u] = tasks[r][u]
         /\ (tasks[r][t].pc = "put" /\ tasks'[r][t].pc # "put")
              => \A e \in (cache' \ cache) \cup (cache \ cache') :
                   e.key.pipe = pipes[t]

\* C22 -- Independent sub-query caching in /recent: the four sub-queries use
\* four different keys; in a request without refresh a sub-query whose get
\* returned calls the backend if and only if the store has no entry under
\* its own key, whatever the other three found; and a sub-query puts under
\* its own key only.
C22_IndependentSubqueries == []C22_OwnKeys /\ [][C22_Steps]_vars

\* in one /recent request without refresh a sub-query was served from the
\* store, another missed, called the backend and put under its key
C22_Witness ==
  \E r \in Reqs, t, u \in Slots :
    /\ IsRecent(r) /\ ~HasRefresh(req[r])
    /\ tasks[r][t].pc = "done" /\ tasks[r][t].nGet = 1 /\ tasks[r][t].nFetch = 0
    /\ tasks[r][u].pc = "done" /\ tasks[r][u].nFetch = 1 /\ tasks[r][u].nPut = 1
    /\ \E e \in cache : e.key.pipe = pipes[u]

\* a put that completes leaves under the key the body its request responds
\* with, and a hit responds with the entry as it is
C23_Steps ==
  \A r \in Reqs :
    IsSingle(r)
      => /\ (tasks[r][1].pc = "put" /\ tasks'[r][1].pc = "done")
              => /\ phase'[r] = "responded"
                 /\ resp'[r].body.k = "string"
                 /\ KVGet(cache', SingleUrl(req[r])) = resp'[r].body
         /\ (tasks[r][1].pc = "get" /\ tasks'[r][1].pc = "done")
              => /\ phase'[r] = "responded"
                 /\ resp'[r].body = KVGet(cache, SingleUrl(req[r]))
                 /\ cache' = cache

\* a request that wrote its entry has responded with the value it wrote, and
\* a request served that entry from the store has the same body
C23_Same ==
  \A a, b \in Reqs :
    (IsSingle(a) /\ HasStored(a))
      => /\ resp[a].body = tasks[a][1].ser
         /\ (/\ SingleUrl(req[b]) = SingleUrl(req[a])
             /\ phase[b] = "responded" /\ tasks[b][1].nFetch = 0
             /\ KVGet(cache, SingleUrl(req[a])) = tasks[a][1].ser
             /\ tasks[b][1].cached = KVGet(cache, SingleUrl(req[a])))
              => resp[b].body = resp[a].body

\* C23 -- Cached entry equals the served body: the value a request to /games
\* or a single-query endpoint puts into the store is exactly the body of the
\* response it returns, and a later request without refresh that hits the
\* entry returns that same body.
C23_CachedEqualsServed == []C23_Same /\ [][C23_Steps]_vars

\* a /games request has stored its reordered results and responded, and a
\* second request to the same key was served the same body from the store
C23_Witness ==
  \E a, b \in Reqs :
    /\ a # b /\ req[a].path = "/games" /\ HasStored(a)
    /\ SingleUrl(req[b]) = SingleUrl(req[a])
    /\ phase[b] = "responded" /\ tasks[b][1].nGet = 1 /\ tasks[b][1].nFetch = 0
    /\ resp[a].body.json.rows # << >>
    /\ resp[b].body = resp[a].body

\* a request with refresh makes no get, and once the backend answered it with
\* a success status its put is pending or made
C24_PutsAfterRefresh ==
  \A r \in Reqs :
    (IsSingle(r) /\ HasRefresh(req[r]))
      => /\ tasks[r][1].nGet = 0
         /\ (tasks[r][1].api.k = "response" /\ tasks[r][1].api.status \in 200 .. 299)
              => tasks[r][1].pc = "put" \/ tasks[r][1].nPut = 1

\* the put of a request with refresh replaces the entry under its key by the
\* new body, and the get of a request without refresh that returns while that
\* body is the entry serves it without a backend call
C24_Steps ==
  \A a \in Reqs :
    (IsSingle(a) /\ HasRefresh(req[a]))
      => /\ (tasks[a][1].pc = "put" /\ tasks'[a][1].pc = "done")
              => /\ KVGet(cache', SingleUrl(req[a])) = tasks[a][1].ser
                 /\ tasks[a][1].ser
                      = Serialized(req[a], DataOf(tasks[a][1].api.body))
         /\ \A b \in Reqs :
              (/\ HasStored(a)
               /\ KVGet(cache, SingleUrl(req[a])) = tasks[a][1].ser
               /\ IsSingle(b) /\ SingleUrl(req[b]) = SingleUrl(req[a])
               /\ tasks[b][1].pc = "get" /\ tasks'[b][1].pc # "get"
               /\ tasks'[b][1].err # "get")
                => /\ phase'[b] = "responded"
                   /\ resp'[b] = Response(tasks[a][1].ser, 200)
                   /\ tasks'[b][1].nFetch = 0

\* C24 -- Refresh still repopulates the cache: a request with refresh skips
\* only the get; after a success status it puts the new body under its key,
\* over any entry there, and the next request without refresh for the key is
\* served that body.
C24_RefreshRepopulates == []C24_PutsAfterRefresh /\ [][C24_Steps]_vars

\* a request with refresh has replaced the entry another request had written
\* by a different body
C24_Witness ==
  \E a, b \in Reqs :
    /\ IsSingle(a) /\ HasRefresh(req[a]) /\ HasStored(a)
    /\ ~HasRefresh(req[b]) /\ HasStored(b)
    /\ SingleUrl(req[b]) = SingleUrl(req[a])
    /\ tasks[b][1].ser # tasks[a][1].ser
    /\ KVGet(cache, SingleUrl(req[a])) = tasks[a][1].ser

\* how often a record occurs in a list
Occurrences(list, record) ==
  Cardinality({ i \in 1 .. Len(list) : list[i] = record })

\* C25 -- Reordering neither loses nor duplicates records: for a /games
\* request with a free-text term the reordered list, before it is cut, is a
\* permutation of the decoded backend list: it has as many records, and each
\* record of either list occurs as often in the other, also when several
\* players of a replay match or a player matches several terms.
C25_ReorderIsPermutation ==
  \A r \in Reqs :
    (/\ phase[r] = "responded" /\ req[r].path = "/games"
     /\ Get(RequestParams(req[r]), "q") \notin {NoValue, ""})
      => LET list == DecodedOf(r)
             ordered == Reorder(list, ForwardedParams(req[r]))
         IN /\ Len(ordered) = Len(list)
            /\ \A i \in 1 .. Len(list) :
                 Occurrences(ordered, list[i]) = Occurrences(list, list[i])
            /\ \A i \in 1 .. Len(ordered) :
                 Occurrences(list, ordered[i]) = Occurrences(ordered, ordered[i])
            /\ Len(list) <= 20
                 => resp[r].body = JsonText(Rows(ordered))

\* the terms nova and NOVA were asked for and the backend listed the replay
\* whose two players each match both terms: the response has it once, among
\* the three records of the backend
C25_Witness ==
  \E r \in Reqs :
    /\ phase[r] = "responded" /\ req[r].path = "/games"
    /\ Get(RequestParams(req[r]), "q") = "nova+NOVA"
    /\ IdsOf(DecodedOf(r)) = <<3, 1, 2>>
    /\ IdsOf(resp[r].body.json.rows) = <<3, 2, 1>>

====
